---- MODULE Spec2Model ----
(***************************************************************************)
(* Model of the paggo_case backend: the document ingestion pipeline        *)
(* (DocumentsController / DocumentsService), the chat turn handler         *)
(* (ChatController / ChatService) and the user sync (UsersService), over   *)
(* the relational store (users, documents, chat messages) and the object   *)
(* store (blobs).  Every HTTP request is a process; every awaited call of  *)
(* a handler is one step, so requests interleave at their awaits.  A       *)
(* handler's code up to its first await runs when the request arrives.     *)
(***************************************************************************)
EXTENDS Naturals, Sequences, FiniteSets, TLC

\* ------------------------------------------------------------------ bounds
MaxInFlight == 2    \* requests being handled at the same time
MaxUploads == 1     \* uploads that pass the checks
MaxTurns == 1       \* chat turns that pass the ownership check
MaxFaults == 1      \* faults of the stores (a call that fails for no reason of the data)
ChatTurns == 2      \* chat turns in the runs that study the order of the messages
IngestUploads == 2  \* uploads accepted in the runs where two ingests may overlap

Req == 1 .. MaxInFlight
DocIds == 1 .. MaxUploads

\* ------------------------------------------------------------------ values
NoId == ""
Users == {"u1", "u2"}
UserIds == Users \cup {NoId}
NoEmail == ""
\* The (userId, email) pairs that uploads carry, and those that syncs carry.
Identities ==
    { <<"u1", "a@x.com">>, <<"u1", NoEmail>>, <<"u2", NoEmail>>, <<NoId, NoEmail>> }

FileSizeLimit == 5 * 1024 * 1024

NoFile == [present |-> FALSE]
File(mime, size) ==
    [present |-> TRUE, originalname |-> "a", mimetype |-> mime, size |-> size]

\* A MIME type is the sequence of its "/"-separated segments.
Files ==
    { File(<<"application", "pdf">>, 10),
      File(<<"image", "png">>, FileSizeLimit),
      File(<<"image", "jpeg">>, FileSizeLimit + 1),
      File(<<"text", "plain">>, 10),
      File(<<"text", "pdf">>, 10),
      File(<<"pdf">>, 10) }

\* A file that passes the checks comes with every identity, the others with one.
UploadInputs ==
    { <<f, i>> \in (Files \cup {NoFile}) \X Identities :
         \/ f = File(<<"application", "pdf">>, 10)
         \/ i = <<"u1", NoEmail>> }

\* The bodies of POST users/sync: with an id, and with an empty id.
SyncIdentities == { <<"u1", "a@x.com">>, <<NoId, "a@x.com">> }
NULL == "<null>"
Texts == {"T"}
\* The k-th chat turn asks the k-th question.
QuestionOf(k) == <<"q1", "q2", "q3", "q4">>[k]

AllowList == { <<"image", "jpeg">>, <<"image", "png">>, <<"application", "pdf">> }

\* ------------------------------------------------------------------ state
VARIABLES
    users,      \* User rows: id -> email
    docs,       \* Document rows: id -> row
    msgs,       \* ChatMessage rows in creation order
    blobs,      \* object store: the storage paths that hold a blob
    nextId,     \* names the uploads: the n-th stored file, and its Document
    nextTurn,   \* numbers the chat turns in their order of arrival
    apiKey,     \* process.env.GEMINI_API_KEY is set
    limit,      \* how many uploads, chat turns and faults a run explores
    faults,     \* the faults of the stores so far
    creator,    \* history: the user whose upload made the Document of each id
    req,        \* the requests in flight: position, arguments, locals
    resp        \* the response that the last step sent, if it sent one

vars == <<users, docs, msgs, blobs, nextId, nextTurn, apiKey, limit, faults, creator, req, resp>>

\* The persistent state: the relational store and the object store.
store == <<users, docs, msgs, blobs>>

\* What no request changes.
config == <<apiKey, limit>>

\* ----------------------------------------------------------------- helpers
Last(s) == s[Len(s)]

RECURSIVE IndexOf(_, _, _)
IndexOf(s, x, i) ==
    IF i > Len(s) THEN 0 ELSE IF s[i] = x THEN i ELSE IndexOf(s, x, i + 1)

Insert(table, key, row) == (key :> row) @@ table
Delete(table, key) == [k \in DOMAIN table \ {key} |-> table[k]]

Blank ==
    [pc |-> "idle", op |-> "none", userId |-> NoId, id |-> 0, email |-> NoEmail,
     title |-> "", fileUrl |-> <<>>, text |-> NULL, summary |-> NULL,
     err |-> "", turn |-> 0, message |-> "", context |-> NULL]

\* The response a request ends with: what it returns or the error it raises.
Response(op, userId, id, status, value) ==
    [op |-> op, userId |-> userId, id |-> id, status |-> status, value |-> value]

NoResponse == Response("none", NoId, 0, 0, <<>>)

\* A request arrives and takes the first free slot.
Arrives(r) ==
    /\ req[r].pc = "idle"
    /\ \A q \in Req : q < r => req[q].pc # "idle"

\* Request r ends and leaves its slot.
Respond(r, status, value) ==
    /\ req' = [req EXCEPT ![r] = Blank]
    /\ resp' = Response(req[r].op, req[r].userId, req[r].id, status, value)

\* A request ends in the step in which it arrived.
Reject(r, op, userId, id, status, value) ==
    /\ req' = req
    /\ resp' = Response(op, userId, id, status, value)

\* Request r goes on to its next await.
Goto(r, next) ==
    /\ req' = [req EXCEPT ![r] = next]
    /\ resp' = NoResponse

\* A call of a store succeeds, or fails by a fault of the store.
Outcomes == {TRUE} \cup (IF faults < limit.faults THEN {FALSE} ELSE {})

\* The store answered ok, or did not (by a fault, or for a reason of the data).
Count(ok) == faults' = IF ok THEN faults ELSE faults + 1

\* -------------------------------------------------------------------- Init
Limits == [uploads |-> MaxUploads, turns |-> MaxTurns, faults |-> MaxFaults]

\* The state when the server starts on empty stores.
Start(lim) ==
    /\ limit = lim
    /\ users = <<>>
    /\ docs = <<>>
    /\ msgs = <<>>
    /\ blobs = {}
    /\ nextId = 1
    /\ nextTurn = 1
    /\ apiKey \in BOOLEAN
    /\ faults = 0
    /\ creator = <<>>
    /\ req = [r \in Req |-> Blank]
    /\ resp = NoResponse

Init == Start(Limits)

\* ----------------------------------------------- DocumentsController.uploadFile
\* /\/(jpg|jpeg|png|pdf)$/ : a "/" followed by one of the words, then the end.
MimeMatches(mimetype) ==
    /\ Len(mimetype) > 1
    /\ Last(mimetype) \in {"jpg", "jpeg", "png", "pdf"}

FileFilter(file) == MimeMatches(file.mimetype)

\* limits.fileSize: a file larger than the limit is refused.
WithinLimits(file) == file.size <= FileSizeLimit

\* email || `user-${userId}@example.com`
UserEmail(email, userId) ==
    IF email # NoEmail THEN email ELSE "user-" \o userId \o "@example.com"

\* The checks without the handler's check of the user id.
UploadCheckNoUserId(file, userId) ==
    IF file.present /\ ~FileFilter(file)
    THEN <<400, "Only image or PDF files are allowed!">>
    ELSE IF file.present /\ ~WithinLimits(file) THEN <<413, "File too large">>
    ELSE IF ~file.present THEN <<400, "File is required">>
    ELSE <<0, "">>

\* The interceptor (fileFilter, limits), then the handler's two checks.
UploadCheck(file, userId) ==
    IF file.present /\ ~FileFilter(file)
    THEN <<400, "Only image or PDF files are allowed!">>
    ELSE IF file.present /\ ~WithinLimits(file) THEN <<413, "File too large">>
    ELSE IF ~file.present THEN <<400, "File is required">>
    ELSE IF userId = NoId THEN <<400, "User ID is required">>
    ELSE <<0, "">>

\* The uploads that passed the checks so far.
Accepted == (nextId - 1) + Cardinality({q \in Req : req[q].pc = "upload"})

\* POST documents/upload
UploadFile(r, file, userId, email) ==
    /\ Arrives(r)
    /\ Accepted < limit.uploads
    /\ LET check == UploadCheck(file, userId) IN
       IF check[1] = 0
       THEN Goto(r, [Blank EXCEPT !.pc = "upload", !.op = "uploadFile",
                                  !.userId = userId,
                                  !.email = UserEmail(email, userId),
                                  !.title = file.originalname])
       ELSE Reject(r, "uploadFile", NoId, 0, check[1], check[2])
    /\ UNCHANGED <<store, nextId, nextTurn, config, creator, faults>>

\* ---------------------------------------------------- DocumentsService.create
FileName(n) == <<"f1", "f2", "f3", "f4", "f5", "f6">>[n]

\* `uploads/${fileName}`
FilePath(n) == <<"uploads", FileName(n)>>

\* getPublicUrl: the pathname of the public URL, by segments.
GetPublicUrl(filePath) ==
    <<"storage", "v1", "object", "public", "documents">> \o filePath

\* uploadToSupabase without `if (error) throw`: create goes on after an error.
UploadIgnoringError(r) ==
    /\ req[r].pc = "upload"
    /\ \E ok \in Outcomes :
         /\ Count(ok)
         /\ blobs' = IF ok THEN blobs \cup {FilePath(nextId)} ELSE blobs
         /\ nextId' = nextId + 1
         /\ Goto(r, [req[r] EXCEPT !.pc = "upsert", !.id = nextId,
                                   !.fileUrl = GetPublicUrl(FilePath(nextId))])
    /\ UNCHANGED <<users, docs, msgs, nextTurn, config, creator>>

\* uploadToSupabase: the object store takes the blob, or reports an error.
UploadToSupabase(r) ==
    /\ req[r].pc = "upload"
    /\ \E ok \in Outcomes :
         /\ Count(ok)
         /\ IF ok
            THEN /\ blobs' = blobs \cup {FilePath(nextId)}
                 /\ nextId' = nextId + 1
                 /\ Goto(r, [req[r] EXCEPT !.pc = "upsert", !.id = nextId,
                                           !.fileUrl = GetPublicUrl(FilePath(nextId))])
            ELSE /\ Respond(r, 500, "Supabase Upload Error")
                 /\ UNCHANGED <<blobs, nextId>>
    /\ UNCHANGED <<users, docs, msgs, nextTurn, config, creator>>

\* prisma.user.upsert({where: {id}, update: {email}, create: {id, email}})
Upsert(table, id, email) == Insert(table, id, email)

UpsertUser(r) ==
    /\ req[r].pc = "upsert"
    /\ \E ok \in Outcomes :
         /\ Count(ok)
         /\ IF ok
            THEN /\ users' = Upsert(users, req[r].userId, req[r].email)
                 /\ Goto(r, [req[r] EXCEPT !.pc = "insert", !.email = NoEmail])
            ELSE /\ Respond(r, 500, "PrismaError")
                 /\ UNCHANGED users
    /\ UNCHANGED <<docs, msgs, blobs, nextId, nextTurn, config, creator>>

NewDocument(id, title, fileUrl, userId) ==
    [id |-> id, title |-> title, fileUrl |-> fileUrl, userId |-> userId,
     status |-> "PROCESSING", extractedText |-> NULL, aiSummary |-> NULL]

\* The insert with a compensation: when it fails, the blob stored in step 1
\* is removed from the object store before the error is raised.
CreateDocumentCleaningUp(r) ==
    /\ req[r].pc = "insert"
    /\ \E ok \in Outcomes :
         /\ Count(ok)
         /\ IF ok /\ req[r].userId \in DOMAIN users
            THEN /\ docs' = Insert(docs, req[r].id,
                       NewDocument(req[r].id, req[r].title, req[r].fileUrl, req[r].userId))
                 /\ creator' = Insert(creator, req[r].id, req[r].userId)
                 /\ Goto(r, [req[r] EXCEPT !.pc = "ocr", !.title = "", !.fileUrl = <<>>])
                 /\ UNCHANGED blobs
            ELSE /\ Respond(r, 500, "PrismaError")
                 /\ blobs' = blobs \ {FilePath(req[r].id)}
                 /\ UNCHANGED <<docs, creator>>
    /\ UNCHANGED <<users, msgs, nextId, nextTurn, config>>

\* prisma.document.create: the row gets an id no other row has or had.
CreateDocument(r) ==
    /\ req[r].pc = "insert"
    /\ \E ok \in Outcomes :
         /\ Count(ok)
         /\ IF ok /\ req[r].userId \in DOMAIN users
            THEN /\ docs' = Insert(docs, req[r].id,
                       NewDocument(req[r].id, req[r].title, req[r].fileUrl, req[r].userId))
                 /\ creator' = Insert(creator, req[r].id, req[r].userId)
                 /\ Goto(r, [req[r] EXCEPT !.pc = "ocr", !.title = "", !.fileUrl = <<>>])
            ELSE /\ Respond(r, 500, "PrismaError")
                 /\ UNCHANGED <<docs, creator>>
    /\ UNCHANGED <<users, msgs, blobs, nextId, nextTurn, config>>

ExtractionError == "Failed to extract text from the file."

\* extractText followed by a write of the text alone, before the summary.
ExtractTextAndSave(r) ==
    /\ req[r].pc = "ocr"
    /\ \/ \E t \in Texts :
            /\ Goto(r, [req[r] EXCEPT !.pc = "summary", !.text = t])
            /\ docs' = IF req[r].id \in DOMAIN docs
                       THEN [docs EXCEPT ![req[r].id].extractedText = t] ELSE docs
       \/ /\ Goto(r, [req[r] EXCEPT !.pc = "catch", !.err = ExtractionError])
          /\ UNCHANGED docs
    /\ UNCHANGED <<users, msgs, blobs, nextId, nextTurn, config, faults, creator>>

\* OcrService.extractText: the text, or the one generic error.
ExtractText(r) ==
    /\ req[r].pc = "ocr"
    /\ \/ \E t \in Texts : Goto(r, [req[r] EXCEPT !.pc = "summary", !.text = t])
       \/ Goto(r, [req[r] EXCEPT !.pc = "catch", !.err = ExtractionError])
    /\ UNCHANGED <<store, nextId, nextTurn, config, creator, faults>>

\* The outcomes of a call of the provider.
ProviderOutcomes == {"ok", "error"}

SummaryOf(text) == "summary of " \o text

\* generateSummary without its catch: an error of the provider is thrown.
GenerateSummaryThrowing(text, key, outcome) ==
    IF ~key THEN <<"return", "GEMINI_API_KEY is not set. Cannot generate summary.">>
    ELSE IF outcome = "ok" THEN <<"return", SummaryOf(text)>>
    ELSE <<"throw", "provider">>

\* AiService.generateSummary: every outcome is a returned string.
GenerateSummary(text, key, outcome) ==
    IF ~key THEN <<"return", "GEMINI_API_KEY is not set. Cannot generate summary.">>
    ELSE IF outcome = "ok" THEN <<"return", SummaryOf(text)>>
    ELSE <<"return", "Error generating summary: provider">>

Summarize(r) ==
    /\ req[r].pc = "summary"
    /\ \E o \in ProviderOutcomes :
         LET s == GenerateSummary(req[r].text, apiKey, o) IN
         IF s[1] = "return"
         THEN Goto(r, [req[r] EXCEPT !.pc = "update", !.summary = s[2]])
         ELSE Goto(r, [req[r] EXCEPT !.pc = "catch", !.err = s[2], !.text = NULL])
    /\ UNCHANGED <<store, nextId, nextTurn, config, creator, faults>>

\* data: {status: 'COMPLETED'} alone.
CompletedStatusOnly(row, text, summary) == [row EXCEPT !.status = "COMPLETED"]

\* data: {extractedText, aiSummary, status: 'COMPLETED'}
Completed(row, text, summary) ==
    [row EXCEPT !.extractedText = text, !.aiSummary = summary,
                !.status = "COMPLETED"]

\* data: {status: 'FAILED'}
Failed(row) == [row EXCEPT !.status = "FAILED"]

\* prisma.document.upsert in place of update: when the row is gone the final
\* write creates it anew, COMPLETED, and create returns it.
UpdateCompletedUpserting(r) ==
    /\ req[r].pc = "update"
    /\ \E ok \in Outcomes :
         /\ Count(ok)
         /\ IF ok
            THEN LET old == IF req[r].id \in DOMAIN docs THEN docs[req[r].id]
                            ELSE NewDocument(req[r].id, req[r].title,
                                             req[r].fileUrl, req[r].userId)
                     row == Completed(old, req[r].text, req[r].summary)
                 IN /\ docs' = Insert(Delete(docs, req[r].id), req[r].id, row)
                    /\ Respond(r, 201, row)
            ELSE /\ Goto(r, [req[r] EXCEPT !.pc = "catch", !.err = "PrismaError",
                                           !.text = NULL, !.summary = NULL])
                 /\ UNCHANGED docs
    /\ UNCHANGED <<users, msgs, blobs, nextId, nextTurn, config, creator>>

\* The update awaited, then `return document`: the row as create made it.
UpdateCompletedReturningCreated(r) ==
    /\ req[r].pc = "update"
    /\ \E ok \in Outcomes :
         /\ Count(ok)
         /\ IF ok /\ req[r].id \in DOMAIN docs
            THEN LET row == Completed(docs[req[r].id], req[r].text, req[r].summary)
                 IN /\ docs' = [docs EXCEPT ![req[r].id] = row]
                    /\ Respond(r, 201, docs[req[r].id])
            ELSE /\ Goto(r, [req[r] EXCEPT !.pc = "catch", !.err = "PrismaError",
                                           !.text = NULL, !.summary = NULL])
                 /\ UNCHANGED docs
    /\ UNCHANGED <<users, msgs, blobs, nextId, nextTurn, config, creator>>

\* The update followed, inside the try, by a statement that throws.
UpdateCompletedThenThrow(r) ==
    /\ req[r].pc = "update"
    /\ \E ok \in Outcomes :
         /\ Count(ok)
         /\ docs' = IF ok /\ req[r].id \in DOMAIN docs
                    THEN [docs EXCEPT ![req[r].id] =
                            Completed(@, req[r].text, req[r].summary)]
                    ELSE docs
         /\ Goto(r, [req[r] EXCEPT !.pc = "catch", !.err = "TypeError",
                                   !.text = NULL, !.summary = NULL])
    /\ UNCHANGED <<users, msgs, blobs, nextId, nextTurn, config, creator>>

\* prisma.document.update({where: {id}, data}): one row, all of data at once.
\* It throws when the row is not there, and on a fault of the store.
UpdateCompleted(r) ==
    /\ req[r].pc = "update"
    /\ \E ok \in Outcomes :
         /\ Count(ok)
         /\ IF ok /\ req[r].id \in DOMAIN docs
            THEN LET row == Completed(docs[req[r].id], req[r].text, req[r].summary)
                 IN /\ docs' = [docs EXCEPT ![req[r].id] = row]
                    /\ Respond(r, 201, row)
            ELSE /\ Goto(r, [req[r] EXCEPT !.pc = "catch", !.err = "PrismaError",
                                           !.text = NULL, !.summary = NULL])
                 /\ UNCHANGED docs
    /\ UNCHANGED <<users, msgs, blobs, nextId, nextTurn, config, creator>>

\* catch (e) { throw e }: the failure is raised and FAILED is not written.
RethrowOnly(r) ==
    /\ req[r].pc = "catch"
    /\ Respond(r, 500, req[r].err)
    /\ UNCHANGED <<store, nextId, nextTurn, config, faults, creator>>

\* updateMany({ where: { userId, status: PROCESSING }, data: { status: FAILED } }):
\* every row of the user still being processed is marked, not the one by id.
UpdateFailedAllOfUser(r) ==
    /\ req[r].pc = "catch"
    /\ \E ok \in Outcomes :
         /\ Count(ok)
         /\ IF ok /\ req[r].id \in DOMAIN docs
            THEN /\ docs' = [d \in DOMAIN docs |->
                                IF /\ docs[d].userId = req[r].userId
                                   /\ docs[d].status = "PROCESSING"
                                THEN Failed(docs[d]) ELSE docs[d]]
                 /\ Respond(r, 500, req[r].err)
            ELSE /\ Respond(r, 500, "PrismaError")
                 /\ UNCHANGED docs
    /\ UNCHANGED <<users, msgs, blobs, nextId, nextTurn, config, creator>>

\* catch (e): write FAILED, then throw e; if the write throws, that is raised.
UpdateFailed(r) ==
    /\ req[r].pc = "catch"
    /\ \E ok \in Outcomes :
         /\ Count(ok)
         /\ IF ok /\ req[r].id \in DOMAIN docs
            THEN /\ docs' = [docs EXCEPT ![req[r].id] = Failed(@)]
                 /\ Respond(r, 500, req[r].err)
            ELSE /\ Respond(r, 500, "PrismaError")
                 /\ UNCHANGED docs
    /\ UNCHANGED <<users, msgs, blobs, nextId, nextTurn, config, creator>>

\* ------------------------------------------------- reads of DocumentsService
\* A lookup by id alone, the owner ignored.
FindFirstAnyOwner(id, userId) ==
    IF id \in DOMAIN docs THEN {docs[id]} ELSE {}

\* findFirst({where: {id, userId}}): the rows with that id and that owner.
FindFirst(id, userId) ==
    IF id \in DOMAIN docs /\ docs[id].userId = userId THEN {docs[id]} ELSE {}

\* findMany({where: {documentId}, orderBy: {createdAt: 'asc'}})
MessagesOf(documentId) == SelectSeq(msgs, LAMBDA m : m.documentId = documentId)

\* findMany({where: {userId}}): the rows of that owner.
FindMany(userId) == {docs[d] : d \in {k \in DOMAIN docs : docs[k].userId = userId}}

\* GET documents?userId=
FindAll(r, userId) ==
    /\ Arrives(r)
    /\ IF userId = NoId
       THEN Reject(r, "findAll", NoId, 0, 400, "User ID is required")
       ELSE Reject(r, "findAll", userId, 0, 200, FindMany(userId))
    /\ UNCHANGED <<store, nextId, nextTurn, config, creator, faults>>

\* include: {chatMessages: {orderBy: {createdAt: 'asc'}}}
WithMessages(row) == [doc |-> row, chatMessages |-> MessagesOf(row.id)]

\* findOne that tells a row of another owner (403) from no row (404).
FindOneForbidden(r, id, userId) ==
    /\ Arrives(r)
    /\ IF userId = NoId
       THEN Reject(r, "findOne", NoId, 0, 400, "User ID is required")
       ELSE IF FindFirst(id, userId) = {}
       THEN IF id \in DOMAIN docs
            THEN Reject(r, "findOne", userId, id, 403, "Forbidden")
            ELSE Reject(r, "findOne", userId, id, 404, "Document not found")
       ELSE Reject(r, "findOne", userId, id, 200,
                   WithMessages(CHOOSE d \in FindFirst(id, userId) : TRUE))
    /\ UNCHANGED <<store, nextId, nextTurn, config, creator, faults>>

\* GET documents/:id?userId=
FindOne(r, id, userId) ==
    /\ Arrives(r)
    /\ IF userId = NoId
       THEN Reject(r, "findOne", NoId, 0, 400, "User ID is required")
       ELSE IF FindFirst(id, userId) = {}
       THEN Reject(r, "findOne", userId, id, 404, "Document not found")
       ELSE Reject(r, "findOne", userId, id, 200,
                   WithMessages(CHOOSE d \in FindFirst(id, userId) : TRUE))
    /\ UNCHANGED <<store, nextId, nextTurn, config, creator, faults>>

\* ---------------------------------------------------- DocumentsService.remove
\* remove that looks the row up by its id alone, without findOne(id, userId).
RemoveById(r, id, userId) ==
    /\ Arrives(r)
    /\ IF userId = NoId
       THEN Reject(r, "remove", NoId, 0, 400, "User ID is required")
       ELSE IF id \notin DOMAIN docs
       THEN Reject(r, "remove", userId, id, 404, "Document not found")
       ELSE Goto(r, [Blank EXCEPT !.pc = "storage", !.op = "remove",
                                  !.userId = userId, !.id = id,
                                  !.fileUrl = docs[id].fileUrl])
    /\ UNCHANGED <<store, nextId, nextTurn, config, creator, faults>>

\* DELETE documents/:id?userId= : the handler's check, then findOne.
Remove(r, id, userId) ==
    /\ Arrives(r)
    /\ IF userId = NoId
       THEN Reject(r, "remove", NoId, 0, 400, "User ID is required")
       ELSE IF FindFirst(id, userId) = {}
       THEN Reject(r, "remove", userId, id, 404, "Document not found")
       ELSE LET doc == CHOOSE d \in FindFirst(id, userId) : TRUE IN
            Goto(r, [Blank EXCEPT !.pc = "storage", !.op = "remove",
                                  !.userId = userId, !.id = doc.id,
                                  !.fileUrl = doc.fileUrl])
    /\ UNCHANGED <<store, nextId, nextTurn, config, creator, faults>>

\* url.pathname.split('/documents/'): the parts around the first separator.
PathParts(url) ==
    LET i == IndexOf(url, "documents", 1) IN
    IF i = 0 THEN <<url>>
    ELSE <<SubSeq(url, 1, i - 1), SubSeq(url, i + 1, Len(url))>>

\* The blob delete with `throw error` where the code logs the error.
RemoveBlobAborting(r) ==
    /\ req[r].pc = "storage"
    /\ \E ok \in Outcomes :
         /\ Count(ok)
         /\ blobs' = IF ok THEN blobs \ {PathParts(req[r].fileUrl)[2]} ELSE blobs
         /\ IF ok THEN Goto(r, [req[r] EXCEPT !.pc = "tx", !.fileUrl = <<>>])
                  ELSE Respond(r, 500, "StorageError")
    /\ UNCHANGED <<users, docs, msgs, nextId, nextTurn, config, creator>>

\* The blob is removed, or the object store reports an error, which is logged.
RemoveBlob(r) ==
    /\ req[r].pc = "storage"
    /\ IF req[r].fileUrl # <<>> /\ Len(PathParts(req[r].fileUrl)) > 1
       THEN \E ok \in Outcomes :
              /\ Count(ok)
              /\ blobs' = IF ok THEN blobs \ {PathParts(req[r].fileUrl)[2]} ELSE blobs
       ELSE UNCHANGED <<blobs, faults>>
    /\ Goto(r, [req[r] EXCEPT !.pc = "tx", !.fileUrl = <<>>])
    /\ UNCHANGED <<users, docs, msgs, nextId, nextTurn, config, creator>>

\* tx.chatMessage.deleteMany({where: {documentId}})
DeleteMany(documentId) == SelectSeq(msgs, LAMBDA m : m.documentId # documentId)

\* The transaction without tx.chatMessage.deleteMany: the row goes alone.
RemoveRowOnly(r) ==
    /\ req[r].pc = "tx"
    /\ \E ok \in Outcomes :
         /\ Count(ok)
         /\ IF ok /\ req[r].id \in DOMAIN docs
            THEN /\ docs' = Delete(docs, req[r].id)
                 /\ Respond(r, 200, docs[req[r].id])
            ELSE /\ Respond(r, 500, "PrismaError")
                 /\ UNCHANGED docs
    /\ UNCHANGED <<users, msgs, blobs, nextId, nextTurn, config, creator>>

\* deleteMany and delete outside a transaction: a delete that fails leaves the
\* messages deleted.
RemoveWithoutTransaction(r) ==
    /\ req[r].pc = "tx"
    /\ \E ok \in Outcomes :
         /\ Count(ok)
         /\ msgs' = DeleteMany(req[r].id)
         /\ IF ok /\ req[r].id \in DOMAIN docs
            THEN /\ docs' = Delete(docs, req[r].id)
                 /\ Respond(r, 200, docs[req[r].id])
            ELSE /\ Respond(r, 500, "PrismaError")
                 /\ UNCHANGED docs
    /\ UNCHANGED <<users, blobs, nextId, nextTurn, config, creator>>

\* The transaction without tx.document.delete: the messages go, the row stays.
RemoveMessagesOnly(r) ==
    /\ req[r].pc = "tx"
    /\ \E ok \in Outcomes :
         /\ Count(ok)
         /\ IF ok /\ req[r].id \in DOMAIN docs
            THEN /\ msgs' = DeleteMany(req[r].id)
                 /\ Respond(r, 200, docs[req[r].id])
            ELSE /\ Respond(r, 500, "PrismaError")
                 /\ UNCHANGED msgs
    /\ UNCHANGED <<users, docs, blobs, nextId, nextTurn, config, creator>>

\* $transaction: deleteMany then delete, both or neither; delete throws when
\* the row is not there.
RemoveTransaction(r) ==
    /\ req[r].pc = "tx"
    /\ \E ok \in Outcomes :
         /\ Count(ok)
         /\ IF ok /\ req[r].id \in DOMAIN docs
            THEN /\ msgs' = DeleteMany(req[r].id)
                 /\ docs' = Delete(docs, req[r].id)
                 /\ Respond(r, 200, docs[req[r].id])
            ELSE /\ Respond(r, 500, "PrismaError")
                 /\ UNCHANGED <<msgs, docs>>
    /\ UNCHANGED <<users, blobs, nextId, nextTurn, config, creator>>

\* ------------------------------------------------------------- ChatService
\* findUnique({where: {id: documentId, userId}})
FindUnique(documentId, userId) == FindFirst(documentId, userId)

ChatMessage(documentId, role, content, turn) ==
    [documentId |-> documentId, role |-> role, content |-> content, turn |-> turn]

\* document.extractedText || ''
Context(document) ==
    IF document.extractedText = NULL THEN "" ELSE document.extractedText

\* POST chat/:documentId : the handler's check, then the ownership check.
SendMessage(r, documentId, userId, message) ==
    /\ Arrives(r)
    /\ nextTurn <= limit.turns
    /\ IF userId = NoId
       THEN /\ Reject(r, "sendMessage", NoId, 0, 400, "User ID is required")
            /\ UNCHANGED nextTurn
       ELSE IF FindUnique(documentId, userId) = {}
       THEN /\ Reject(r, "sendMessage", userId, documentId, 404, "Document not found")
            /\ UNCHANGED nextTurn
       ELSE LET document == CHOOSE d \in FindUnique(documentId, userId) : TRUE IN
            /\ Goto(r, [Blank EXCEPT !.pc = "userMsg", !.op = "sendMessage",
                                     !.userId = userId, !.id = documentId,
                                     !.turn = nextTurn, !.message = message,
                                     !.context = Context(document)])
            /\ nextTurn' = nextTurn + 1
    /\ UNCHANGED <<store, nextId, config, creator, faults>>

\* ChatMessage.documentId references Document.id.
ForeignKeyHolds(documentId) == documentId \in DOMAIN docs

\* sendMessage without the create of the USER message.
SkipUserMessage(r) ==
    /\ req[r].pc = "userMsg"
    /\ Goto(r, [req[r] EXCEPT !.pc = "aiMsg"])
    /\ UNCHANGED <<store, nextId, nextTurn, config, creator, faults>>

\* prisma.chatMessage.create({data: {documentId, role: 'USER', content}})
CreateUserMessage(r) ==
    /\ req[r].pc = "userMsg"
    /\ \E ok \in Outcomes :
         /\ Count(ok)
         /\ IF ok /\ ForeignKeyHolds(req[r].id)
            THEN /\ msgs' = Append(msgs,
                       ChatMessage(req[r].id, "USER", req[r].message, req[r].turn))
                 /\ Goto(r, [req[r] EXCEPT !.pc = "aiMsg"])
            ELSE /\ Respond(r, 500, "PrismaError")
                 /\ UNCHANGED msgs
    /\ UNCHANGED <<users, docs, blobs, nextId, nextTurn, config, creator>>

AnswerOf(documentText, userQuestion) ==
    "answer to " \o userQuestion \o " from " \o documentText

\* AiService.chatAboutDocument: every outcome is a string.
ChatAboutDocument(documentText, userQuestion, key, outcome) ==
    IF ~key THEN "GEMINI_API_KEY is not set."
    ELSE IF outcome = "ok" THEN AnswerOf(documentText, userQuestion)
    ELSE "I cannot answer right now (AI Error): provider"

\* The create of the AI message with a compensation: when it fails, the USER
\* message of the turn is deleted.
CreateAiMessageRollingBack(r) ==
    /\ req[r].pc = "aiMsg"
    /\ \E o \in ProviderOutcomes, ok \in Outcomes :
         LET aiResponse == ChatAboutDocument(req[r].context, req[r].message, apiKey, o)
             aiMsg == ChatMessage(req[r].id, "AI", aiResponse, req[r].turn)
             question == ChatMessage(req[r].id, "USER", req[r].message, req[r].turn)
         IN /\ Count(ok)
            /\ IF ok /\ ForeignKeyHolds(req[r].id)
               THEN /\ msgs' = Append(msgs, aiMsg)
                    /\ Respond(r, 201, aiMsg)
               ELSE /\ Respond(r, 500, "PrismaError")
                    /\ msgs' = SelectSeq(msgs, LAMBDA m : m # question)
    /\ UNCHANGED <<users, docs, blobs, nextId, nextTurn, config, creator>>

\* The document text read again just before the chat call, not taken from the
\* row that the ownership check returned.
CreateAiMessageRereading(r) ==
    /\ req[r].pc = "aiMsg"
    /\ \E o \in ProviderOutcomes, ok \in Outcomes :
         LET context == IF req[r].id \in DOMAIN docs
                        THEN Context(docs[req[r].id]) ELSE ""
             aiResponse == ChatAboutDocument(context, req[r].message, apiKey, o)
             aiMsg == ChatMessage(req[r].id, "AI", aiResponse, req[r].turn)
         IN /\ Count(ok)
            /\ IF ok /\ ForeignKeyHolds(req[r].id)
               THEN /\ msgs' = Append(msgs, aiMsg)
                    /\ Respond(r, 201, aiMsg)
               ELSE /\ Respond(r, 500, "PrismaError")
                    /\ UNCHANGED msgs
    /\ UNCHANGED <<users, docs, blobs, nextId, nextTurn, config, creator>>

\* The AI message placed right behind the USER message of its turn.
CreateAiMessageThreaded(r) ==
    /\ req[r].pc = "aiMsg"
    /\ \E o \in ProviderOutcomes, ok \in Outcomes :
         LET aiResponse == ChatAboutDocument(req[r].context, req[r].message, apiKey, o)
             aiMsg == ChatMessage(req[r].id, "AI", aiResponse, req[r].turn)
             question == ChatMessage(req[r].id, "USER", req[r].message, req[r].turn)
             i == IndexOf(msgs, question, 1)
         IN /\ Count(ok)
            /\ IF ok /\ ForeignKeyHolds(req[r].id)
               THEN /\ msgs' = SubSeq(msgs, 1, i) \o <<aiMsg>>
                                  \o SubSeq(msgs, i + 1, Len(msgs))
                    /\ Respond(r, 201, aiMsg)
               ELSE /\ Respond(r, 500, "PrismaError")
                    /\ UNCHANGED msgs
    /\ UNCHANGED <<users, docs, blobs, nextId, nextTurn, config, creator>>

\* The chat call, then prisma.chatMessage.create({data: {..., role: 'AI'}}).
CreateAiMessage(r) ==
    /\ req[r].pc = "aiMsg"
    /\ \E o \in ProviderOutcomes, ok \in Outcomes :
         LET aiResponse == ChatAboutDocument(req[r].context, req[r].message, apiKey, o)
             aiMsg == ChatMessage(req[r].id, "AI", aiResponse, req[r].turn)
         IN /\ Count(ok)
            /\ IF ok /\ ForeignKeyHolds(req[r].id)
               THEN /\ msgs' = Append(msgs, aiMsg)
                    /\ Respond(r, 201, aiMsg)
               ELSE /\ Respond(r, 500, "PrismaError")
                    /\ UNCHANGED msgs
    /\ UNCHANGED <<users, docs, blobs, nextId, nextTurn, config, creator>>

\* GET chat/:documentId?userId= : the handler's check, then the ownership check.
GetMessages(r, documentId, userId) ==
    /\ Arrives(r)
    /\ IF userId = NoId
       THEN Reject(r, "getMessages", NoId, 0, 400, "User ID is required")
       ELSE IF FindFirst(documentId, userId) = {}
       THEN Reject(r, "getMessages", userId, documentId, 404,
                   "Document not found or access denied")
       ELSE Goto(r, [Blank EXCEPT !.pc = "list", !.op = "getMessages",
                                  !.userId = userId, !.id = documentId])
    /\ UNCHANGED <<store, nextId, nextTurn, config, creator, faults>>

\* findMany with orderBy: {createdAt: 'desc'}: the newest message first.
ListMessagesDescending(r) ==
    /\ req[r].pc = "list"
    /\ LET s == MessagesOf(req[r].id) IN
       Respond(r, 200, [i \in 1 .. Len(s) |-> s[Len(s) + 1 - i]])
    /\ UNCHANGED <<store, nextId, nextTurn, config, creator, faults>>

\* findMany({where: {documentId}, orderBy: {createdAt: 'asc'}})
ListMessages(r) ==
    /\ req[r].pc = "list"
    /\ Respond(r, 200, MessagesOf(req[r].id))
    /\ UNCHANGED <<store, nextId, nextTurn, config, creator, faults>>

\* ------------------------------------------------------------ UsersService
\* POST users/sync : no check in the handler; the upsert.
SyncUser(r, id, email) ==
    /\ Arrives(r)
    /\ \E ok \in Outcomes :
         /\ Count(ok)
         /\ IF ok
            THEN /\ users' = Upsert(users, id, email)
                 /\ Reject(r, "syncUser", id, 0, 201, <<id, email>>)
            ELSE /\ Reject(r, "syncUser", id, 0, 500, "PrismaError")
                 /\ UNCHANGED users
    /\ UNCHANGED <<docs, msgs, blobs, nextId, nextTurn, config, creator>>

\* -------------------------------------------------------------------- Next
Next ==
    \/ \E r \in Req, in \in UploadInputs :
          UploadFile(r, in[1], in[2][1], in[2][2])
    \/ \E r \in Req : UploadToSupabase(r)
    \/ \E r \in Req : UpsertUser(r)
    \/ \E r \in Req : CreateDocument(r)
    \/ \E r \in Req : ExtractText(r)
    \/ \E r \in Req : Summarize(r)
    \/ \E r \in Req : UpdateCompleted(r)
    \/ \E r \in Req : UpdateFailed(r)
    \/ \E r \in Req, u \in UserIds : FindAll(r, u)
    \/ \E r \in Req, d \in DocIds, u \in UserIds : FindOne(r, d, u)
    \/ \E r \in Req, d \in DocIds, u \in UserIds : Remove(r, d, u)
    \/ \E r \in Req : RemoveBlob(r)
    \/ \E r \in Req : RemoveTransaction(r)
    \/ \E r \in Req, d \in DocIds, u \in UserIds :
          SendMessage(r, d, u, QuestionOf(nextTurn))
    \/ \E r \in Req : CreateUserMessage(r)
    \/ \E r \in Req : CreateAiMessage(r)
    \/ \E r \in Req, d \in DocIds, u \in UserIds : GetMessages(r, d, u)
    \/ \E r \in Req : ListMessages(r)
    \/ \E r \in Req, i \in SyncIdentities : SyncUser(r, i[1], i[2])

Spec == Init /\ [][Next]_vars

\* The server when two chat turns may arrive, and overlap.
ChatLimits == [uploads |-> MaxUploads, turns |-> ChatTurns, faults |-> MaxFaults]

ChatSpec == Start(ChatLimits) /\ [][Next]_vars

\* Every awaited call of create returns or throws: an ingest in flight takes
\* its next step.
Progress ==
    \A r \in Req :
       /\ WF_vars(UploadToSupabase(r))
       /\ WF_vars(UpsertUser(r))
       /\ WF_vars(CreateDocument(r))
       /\ WF_vars(ExtractText(r))
       /\ WF_vars(Summarize(r))
       /\ WF_vars(UpdateCompleted(r))
       /\ WF_vars(UpdateFailed(r))

LiveSpec == Init /\ [][Next]_vars /\ Progress

\* The chat page sends a question only when its last one was answered.
SequentialSend(r, documentId, userId, message) ==
    /\ \A q \in Req : req[q].op # "sendMessage"
    /\ SendMessage(r, documentId, userId, message)

SeqNext ==
    \/ \E r \in Req, in \in UploadInputs :
          UploadFile(r, in[1], in[2][1], in[2][2])
    \/ \E r \in Req : UploadToSupabase(r)
    \/ \E r \in Req : UpsertUser(r)
    \/ \E r \in Req : CreateDocument(r)
    \/ \E r \in Req : ExtractText(r)
    \/ \E r \in Req : Summarize(r)
    \/ \E r \in Req : UpdateCompleted(r)
    \/ \E r \in Req : UpdateFailed(r)
    \/ \E r \in Req, u \in UserIds : FindAll(r, u)
    \/ \E r \in Req, d \in DocIds, u \in UserIds : FindOne(r, d, u)
    \/ \E r \in Req, d \in DocIds, u \in UserIds : Remove(r, d, u)
    \/ \E r \in Req : RemoveBlob(r)
    \/ \E r \in Req : RemoveTransaction(r)
    \/ \E r \in Req, d \in DocIds, u \in UserIds :
          SequentialSend(r, d, u, QuestionOf(nextTurn))
    \/ \E r \in Req : CreateUserMessage(r)
    \/ \E r \in Req : CreateAiMessage(r)
    \/ \E r \in Req, d \in DocIds, u \in UserIds : GetMessages(r, d, u)
    \/ \E r \in Req : ListMessages(r)
    \/ \E r \in Req, i \in SyncIdentities : SyncUser(r, i[1], i[2])

\* The server when the chat turns come one after the other.
SeqSpec == Start(ChatLimits) /\ [][SeqNext]_vars

\* The server when two uploads are accepted, and their ingests may overlap;
\* the stores do not fail, extraction and the provider still may.
IngestLimits == [uploads |-> IngestUploads, turns |-> MaxTurns, faults |-> 0]

IngestSpec == Start(IngestLimits) /\ [][Next]_vars

\* ================================================================== claims
\* The request in slot r takes the step.
Acts(r) == req'[r] # req[r]

\* The Document of id d and its messages are what they were.
Untouched(d) ==
    /\ (d \in DOMAIN docs) = (d \in DOMAIN docs')
    /\ d \in DOMAIN docs => docs'[d] = docs[d]
    /\ MessagesOf(d)' = MessagesOf(d)

\* A response to a read holds only what the caller's own uploads made.
ReadsIsolated ==
    /\ resp.op = "findOne" /\ resp.status = 200 =>
          /\ creator[resp.value.doc.id] = resp.userId
          /\ \A i \in DOMAIN resp.value.chatMessages :
                creator[resp.value.chatMessages[i].documentId] = resp.userId
    /\ resp.op = "findAll" /\ resp.status = 200 =>
          \A d \in resp.value : creator[d.id] = resp.userId
    /\ resp.op = "getMessages" /\ resp.status = 200 =>
          \A i \in DOMAIN resp.value : creator[resp.value[i].documentId] = resp.userId

\* A step of a request leaves the Documents of the other users untouched.
WritesIsolated ==
    \A r \in Req : Acts(r) /\ req[r].pc # "idle" =>
       \A d \in DOMAIN creator : creator[d] # req[r].userId => Untouched(d)

\* C1: ownership isolation. A Document that A created is never returned by
\* findOne, findAll or getMessages called as B, and no step of a request of B
\* (remove, sendMessage or any other) deletes it, changes it or changes its
\* messages.
C1_OwnershipIsolation == []ReadsIsolated /\ [][WritesIsolated]_vars

\* B asks to remove a Document of A that exists, and is told not found.
C1_Witness ==
    /\ resp.op = "remove" /\ resp.status = 404
    /\ resp.id \in DOMAIN docs /\ docs[resp.id].userId # resp.userId

\* C2: in every reachable state a Document whose status is COMPLETED has its
\* extractedText and its aiSummary set (neither is null).
C2_CompletedHasFields ==
    \A d \in DOMAIN docs : docs[d].status = "COMPLETED" =>
       docs[d].extractedText # NULL /\ docs[d].aiSummary # NULL

\* A Document is COMPLETED, its summary being the provider's error placeholder.
C2_Witness ==
    \E d \in DOMAIN docs :
       /\ docs[d].status = "COMPLETED"
       /\ docs[d].aiSummary = "Error generating summary: provider"

\* C3: in every reachable state a Document whose status is FAILED has neither
\* extractedText nor aiSummary set, also when what failed is the final write
\* after extraction and summarization succeeded.
C3_FailedHasNoFields ==
    \A d \in DOMAIN docs : docs[d].status = "FAILED" =>
       docs[d].extractedText = NULL /\ docs[d].aiSummary = NULL

\* The final write failed after both calls succeeded, and the row is FAILED.
C3_Witness ==
    /\ resp.op = "uploadFile" /\ resp.status = 500 /\ resp.value = "PrismaError"
    /\ resp.id \in DOMAIN docs /\ docs[resp.id].status = "FAILED"

\* How the status of the row of id d may change in one step.
StatusStep(d) ==
    /\ d \in DOMAIN docs /\ d \in DOMAIN docs' =>
          \/ docs'[d].status = docs[d].status
          \/ /\ docs[d].status = "PROCESSING"
             /\ docs'[d].status \in {"COMPLETED", "FAILED"}
    /\ d \notin DOMAIN docs /\ d \in DOMAIN docs' =>
          docs'[d].status = "PROCESSING" /\ d \notin DOMAIN creator

\* C4: the status of a Document changes at most once, from PROCESSING to
\* COMPLETED or to FAILED; no step of any operation changes a COMPLETED or
\* FAILED status, and a row that appears is a new Document in PROCESSING.
C4_StatusTerminal == [][\A d \in DocIds : StatusStep(d)]_vars

\* A chat turn completed on a Document that is FAILED, and it is still FAILED.
C4_Witness ==
    /\ resp.op = "sendMessage" /\ resp.status = 201
    /\ resp.id \in DOMAIN docs /\ docs[resp.id].status = "FAILED"

\* C5: when the object-store write of an ingest fails, the ingest ends there
\* with an error and the stores are what they were: no User row, no Document
\* row, no blob.
C5_StorageFailureIsFatal ==
    [][\A r \in Req : req[r].pc = "upload" /\ Acts(r) /\ faults' # faults =>
          /\ resp'.op = "uploadFile" /\ resp'.status = 500
          /\ req'[r] = Blank
          /\ store' = store]_vars

\* An ingest ended with the upload error while no User row exists.
C5_Witness ==
    /\ resp.op = "uploadFile" /\ resp.status = 500
    /\ resp.value = "Supabase Upload Error"
    /\ users = <<>> /\ docs = <<>> /\ blobs = {}

\* The upload lacks its file, lacks its user id, or its file is over the limit.
Defective(file, userId) ==
    \/ ~file.present
    \/ userId = NoId
    \/ file.size > FileSizeLimit

\* C6: an upload with no file, with no user id or with a file over 5 MB is
\* refused when it arrives: it starts no request and the stores are unchanged.
C6_RejectedBeforeSideEffect ==
    [][\A r \in Req, in \in UploadInputs :
          UploadFile(r, in[1], in[2][1], in[2][2]) /\ Defective(in[1], in[2][1]) =>
             /\ resp'.op = "uploadFile" /\ resp'.status \in {400, 413}
             /\ req' = req
             /\ store' = store]_vars

\* An upload was refused for the size of its file.
C6_Witness ==
    /\ resp.op = "uploadFile" /\ resp.status = 413
    /\ resp.value = "File too large"

\* C7 as stated: the filter accepts a file if and only if its MIME type is one
\* of image/jpeg, image/png, application/pdf.
C7_FilterIsAllowList ==
    [][\A r \in Req, in \in UploadInputs :
          UploadFile(r, in[1], in[2][1], in[2][2]) /\ in[1].present =>
             ((resp'.status = 400
                  /\ resp'.value = "Only image or PDF files are allowed!")
                <=> in[1].mimetype \notin AllowList)]_vars

\* The extraction of request r failed and r takes its next step.
AfterExtractionFailed(r) ==
    req[r].pc = "catch" /\ req[r].err = ExtractionError /\ Acts(r)

\* C8 as stated: after a failed extraction the row is written FAILED and the
\* same failure reaches the caller.
C8_FailedThenRaised ==
    [][\A r \in Req : AfterExtractionFailed(r) =>
          /\ resp'.status = 500 /\ resp'.value = ExtractionError
          /\ req[r].id \in DOMAIN docs' /\ docs'[req[r].id].status = "FAILED"]_vars

\* C8 amended: after a failed extraction the caller gets an error, never a
\* Document. When the write of FAILED succeeds, the row is FAILED as the
\* extraction failure reaches the caller; when it fails (the row is gone, or
\* a fault of the store) the error of the write is raised and no row changes.
C8_FailedThenRaisedIfWritten ==
    [][\A r \in Req : AfterExtractionFailed(r) =>
          /\ resp'.op = "uploadFile" /\ resp'.status = 500 /\ req'[r] = Blank
          /\ IF req[r].id \in DOMAIN docs /\ faults' = faults
             THEN /\ resp'.value = ExtractionError
                  /\ docs' = [docs EXCEPT ![req[r].id].status = "FAILED"]
             ELSE /\ resp'.value = "PrismaError"
                  /\ docs' = docs]_vars

\* The extraction failure reached the caller and the row is FAILED.
C8_Witness ==
    /\ resp.op = "uploadFile" /\ resp.status = 500
    /\ resp.value = ExtractionError
    /\ resp.id \in DOMAIN docs /\ docs[resp.id].status = "FAILED"

\* The placeholders that generateSummary returns in place of a summary.
Placeholders ==
    { "GEMINI_API_KEY is not set. Cannot generate summary.",
      "Error generating summary: provider" }

\* C9: summarization never throws and never fails the ingest: after it, create
\* goes on to the COMPLETED write with a summary that is a string; the row
\* written and returned is COMPLETED with that summary (the placeholder when the
\* provider failed or the key is missing) and with the extracted text.
C9_SummaryFailureIsAbsorbed ==
    [][\A r \in Req :
          /\ req[r].pc = "summary" /\ Acts(r) =>
                /\ req'[r].pc = "update" /\ req'[r].summary # NULL
                /\ req'[r].text = req[r].text
                /\ ~apiKey => req'[r].summary \in Placeholders
                /\ store' = store
          /\ req[r].pc = "update" /\ Acts(r) /\ resp'.status = 201 =>
                /\ resp'.value.status = "COMPLETED"
                /\ resp'.value.aiSummary = req[r].summary
                /\ resp'.value.extractedText = req[r].text
                /\ docs'[req[r].id] = resp'.value]_vars

\* An ingest returned a COMPLETED Document whose summary is the placeholder.
C9_Witness ==
    /\ resp.op = "uploadFile" /\ resp.status = 201
    /\ resp.value.status = "COMPLETED"
    /\ resp.value.aiSummary \in Placeholders
    /\ resp.value.extractedText \in Texts

\* C10: remove, called by a user for an id that names no Document or names a
\* Document of another user, reports not found and changes nothing: no blob,
\* no ChatMessage and no Document is deleted, and no request is left running.
C10_RemoveOfUnownedIsNotFound ==
    [][\A r \in Req, d \in DocIds, u \in Users :
          Remove(r, d, u) /\ (d \notin DOMAIN docs \/ docs[d].userId # u) =>
             /\ resp'.op = "remove" /\ resp'.status = 404
             /\ req' = req
             /\ store' = store]_vars

\* remove is told not found for the id of a Document that was removed before.
C10_Witness ==
    /\ resp.op = "remove" /\ resp.status = 404
    /\ resp.id \in DOMAIN creator /\ resp.id \notin DOMAIN docs
    /\ creator[resp.id] = resp.userId

\* The Document of id d was created and its row is gone.
Removed(d) == d \in DOMAIN creator /\ d \notin DOMAIN docs

\* The step answers a remove of id d with success.
RemoveSucceeds(d) == resp'.op = "remove" /\ resp'.status = 200 /\ resp'.id = d

\* C11: a remove that succeeds leaves no row of that id; a row goes only by a
\* remove that succeeds; a row that is gone never comes back; and every get
\* and getMessages that arrives afterwards, from any user, is told not found,
\* whatever else is in flight.
C11_RemovedStaysNotFound ==
    [][\A d \in DocIds :
          /\ RemoveSucceeds(d) => Removed(d)'
          /\ d \in DOMAIN docs /\ d \notin DOMAIN docs' => RemoveSucceeds(d)
          /\ Removed(d) => Removed(d)'
          /\ \A r \in Req, u \in Users :
                Removed(d) /\ (FindOne(r, d, u) \/ GetMessages(r, d, u)) =>
                   resp'.status = 404 /\ resp'.id = d /\ req' = req]_vars

\* The owner asks for the messages of the Document it removed: not found.
C11_Witness ==
    /\ resp.op = "getMessages" /\ resp.status = 404
    /\ Removed(resp.id) /\ creator[resp.id] = resp.userId

\* C12: the messages of a Document and its row go in one step or not at all:
\* a step that deletes the row leaves none of its messages, a step that
\* deletes a message of it deletes the row, and a transaction of remove that
\* fails changes neither. So no state, and no request reading one, has the
\* messages deleted by remove while the row is still there.
C12_TransactionIsAtomic ==
    [][\A d \in DocIds :
          /\ d \in DOMAIN docs /\ d \notin DOMAIN docs' => MessagesOf(d)' = <<>>
          /\ Len(MessagesOf(d)') < Len(MessagesOf(d)) => d \notin DOMAIN docs'
          /\ \A r \in Req :
                req[r].pc = "tx" /\ req[r].id = d /\ Acts(r) /\ resp'.status # 200 =>
                   msgs' = msgs /\ docs' = docs]_vars

\* remove succeeded on a Document that had a USER message, written by a chat
\* turn that is still in flight: the message and the row are both gone.
C12_Witness ==
    /\ resp.op = "remove" /\ resp.status = 200
    /\ Removed(resp.id) /\ MessagesOf(resp.id) = <<>>
    /\ \E r \in Req : req[r].pc = "aiMsg" /\ req[r].id = resp.id

\* C13: when the blob delete of remove fails, remove goes on to its
\* transaction with the stores unchanged (the blob stays); the transaction
\* then deletes the messages and the row and remove succeeds, exactly as after
\* a blob delete that worked.
C13_BlobFailureDoesNotAbort ==
    [][\A r \in Req :
          /\ req[r].pc = "storage" /\ Acts(r) /\ faults' # faults =>
                /\ req'[r] = [req[r] EXCEPT !.pc = "tx", !.fileUrl = <<>>]
                /\ resp' = NoResponse
                /\ store' = store
          /\ \A d \in DOMAIN docs :
                req[r].pc = "tx" /\ req[r].id = d /\ Acts(r) /\ faults' = faults =>
                   /\ resp'.op = "remove" /\ resp'.status = 200
                   /\ Removed(d)' /\ MessagesOf(d)' = <<>>]_vars

\* remove succeeded and the blob of the removed Document is still stored.
C13_Witness ==
    /\ resp.op = "remove" /\ resp.status = 200
    /\ Removed(resp.id) /\ FilePath(resp.id) \in blobs

\* User u has no Document of id d: there is none, or it is another user's.
NotOwned(d, u) == d \notin DOMAIN docs \/ docs[d].userId # u

\* The step answers not found, with the message msg, and changes nothing.
AnswersNotFound(op, d, u, msg) ==
    /\ resp' = Response(op, u, d, 404, msg)
    /\ req' = req
    /\ store' = store
    /\ nextTurn' = nextTurn

\* C14: what get, remove, sendMessage and getMessages answer to a user who has
\* no Document of that id is fixed by the operation, the id and the caller: it
\* is the same not-found, with no effect, whether no Document has the id or
\* another user's Document has it.
C14_NotFoundIndistinguishable ==
    [][\A r \in Req, d \in DocIds, u \in Users : NotOwned(d, u) =>
          /\ FindOne(r, d, u) => AnswersNotFound("findOne", d, u, "Document not found")
          /\ Remove(r, d, u) => AnswersNotFound("remove", d, u, "Document not found")
          /\ SendMessage(r, d, u, QuestionOf(nextTurn)) =>
                AnswersNotFound("sendMessage", d, u, "Document not found")
          /\ GetMessages(r, d, u) =>
                AnswersNotFound("getMessages", d, u,
                                "Document not found or access denied")]_vars

\* A chat turn on another user's Document is told not found.
C14_Witness ==
    /\ resp.op = "sendMessage" /\ resp.status = 404
    /\ resp.id \in DOMAIN docs /\ docs[resp.id].userId # resp.userId

\* In the sequence s every AI message comes after the USER message of its turn.
UserBeforeAi(s) ==
    \A j \in DOMAIN s : s[j].role = "AI" =>
       \E i \in 1 .. (j - 1) :
          /\ s[i].role = "USER"
          /\ s[i].turn = s[j].turn
          /\ s[i].documentId = s[j].documentId

\* C15: in the messages stored, and in every list that getMessages returns,
\* the AI message of a chat turn comes after the USER message of that turn,
\* also when chat turns overlap; a turn that completes has just written its AI
\* message behind its USER message.
C15_UserBeforeAi ==
    /\ UserBeforeAi(msgs)
    /\ resp.op = "getMessages" /\ resp.status = 200 => UserBeforeAi(resp.value)
    /\ resp.op = "sendMessage" /\ resp.status = 201 =>
          msgs # <<>> /\ resp.value = Last(msgs)

\* getMessages returns two turns that overlapped: both questions, then answers.
C15_Witness ==
    /\ resp.op = "getMessages" /\ resp.status = 200
    /\ Len(resp.value) = 4
    /\ resp.value[1].role = "USER" /\ resp.value[2].role = "USER"
    /\ resp.value[3].role = "AI" /\ resp.value[4].role = "AI"

\* s is n chat turns on Document d: USER, AI, USER, AI, ..., the k-th USER
\* message carrying the k-th question.
Alternates(s, d, n) ==
    /\ Len(s) = 2 * n
    /\ \A k \in 1 .. n :
          /\ s[2 * k - 1] = ChatMessage(d, "USER", QuestionOf(k), k)
          /\ s[2 * k].role = "AI"
          /\ s[2 * k].turn = k
          /\ s[2 * k].documentId = d

\* getMessages answers for a Document that exists, no call has failed so far
\* and no chat turn is in flight.
AfterSuccessfulTurns ==
    /\ resp.op = "getMessages" /\ resp.status = 200
    /\ resp.id \in DOMAIN docs
    /\ faults = 0
    /\ \A q \in Req : req[q].op # "sendMessage"

\* C16: when the chat turns on a Document come one after the other and all
\* succeed, getMessages after n of them returns 2n messages, alternately USER
\* and AI, the k-th USER message carrying the k-th question.
C16_SequentialTurnsAlternate ==
    AfterSuccessfulTurns => Alternates(resp.value, resp.id, nextTurn - 1)

\* getMessages returns the four messages of two turns.
C16_Witness ==
    AfterSuccessfulTurns /\ nextTurn = 3 /\ Len(resp.value) = 4

\* C17 as stated: the messages of a Document are in the order in which their
\* requests arrived, also when the requests overlap.
C17_ArrivalOrder ==
    \A i, j \in DOMAIN msgs :
       i < j /\ msgs[i].documentId = msgs[j].documentId =>
          msgs[i].turn <= msgs[j].turn

\* C17 amended: the messages are in the order in which they are written. A
\* chat turn writes each message behind every message stored so far, and the
\* messages stored when a chat turn arrives are those of turns that arrived
\* before it; so turns that do not overlap keep their order of arrival, and
\* the messages of turns that overlap may interleave in either order.
C17_WriteOrder ==
    [][\A r \in Req :
          /\ \A d \in DocIds, u \in Users :
                SendMessage(r, d, u, QuestionOf(nextTurn)) /\ req'[r].pc = "userMsg" =>
                   \A i \in DOMAIN msgs : msgs[i].turn < req'[r].turn
          /\ req[r].op = "sendMessage" /\ Acts(r) =>
                \/ msgs' = msgs
                \/ /\ msgs' = Append(msgs, Last(msgs'))
                   /\ Last(msgs').turn = req[r].turn
                   /\ Last(msgs').documentId = req[r].id]_vars

\* Two turns overlapped: the question of the second is stored before the
\* question of the first.
C17_Witness ==
    /\ Len(msgs) >= 2
    /\ msgs[1].turn = 2 /\ msgs[2].turn = 1
    /\ msgs[1].documentId = msgs[2].documentId

\* The message m is stored.
Stored(m) == \E i \in DOMAIN msgs : msgs[i] = m

\* The USER message that the chat turn of request r wrote.
UserMessageOf(r) == ChatMessage(req[r].id, "USER", req[r].message, req[r].turn)

\* C18: a chat turn that has written its USER message has it stored for as
\* long as the Document exists; and when the turn then fails, it reports the
\* failure, the stores are what they were (the USER message is not taken
\* back) and no AI message of that turn is stored.
C18_UserMessageSurvivesFailure ==
    /\ [](\A r \in Req :
            req[r].pc = "aiMsg" /\ req[r].id \in DOMAIN docs => Stored(UserMessageOf(r)))
    /\ [][\A r \in Req : req[r].pc = "aiMsg" /\ Acts(r) /\ resp'.status # 201 =>
             /\ resp'.op = "sendMessage" /\ resp'.status = 500
             /\ store' = store
             /\ \A i \in DOMAIN msgs' :
                   ~(msgs'[i].role = "AI" /\ msgs'[i].turn = req[r].turn)]_vars

\* A chat turn failed and its USER message is stored, unanswered.
C18_Witness ==
    /\ resp.op = "sendMessage" /\ resp.status = 500
    /\ resp.id \in DOMAIN docs
    /\ Len(msgs) = 1 /\ msgs[1].role = "USER" /\ msgs[1].documentId = resp.id

\* The step refuses the request that arrived: an error, and nothing changed.
Refused ==
    /\ resp'.status >= 400
    /\ req' = req
    /\ store' = store

\* C19 as stated: each of the seven operations, called with no user id (for
\* userSync: no id), is refused before any side effect.
C19_MissingIdentityRejected ==
    [][\A r \in Req :
          /\ \A in \in UploadInputs :
                in[2][1] = NoId /\ UploadFile(r, in[1], in[2][1], in[2][2]) => Refused
          /\ FindAll(r, NoId) => Refused
          /\ \A d \in DocIds :
                /\ FindOne(r, d, NoId) => Refused
                /\ Remove(r, d, NoId) => Refused
                /\ SendMessage(r, d, NoId, QuestionOf(nextTurn)) => Refused
                /\ GetMessages(r, d, NoId) => Refused
          /\ \A i \in SyncIdentities :
                i[1] = NoId /\ SyncUser(r, i[1], i[2]) => Refused]_vars

\* C20: an upload is answered with an error or with a Document whose status
\* is COMPLETED; it is never answered with a Document in PROCESSING (or FAILED).
C20_ReturnsCompleted ==
    resp.op = "uploadFile" /\ resp.status < 400 =>
       resp.status = 201 /\ resp.value.status = "COMPLETED"

\* An upload returned its Document, COMPLETED, with the summary of its text.
C20_Witness ==
    /\ resp.op = "uploadFile" /\ resp.status = 201
    /\ resp.value.status = "COMPLETED"
    /\ resp.value.aiSummary = SummaryOf(resp.value.extractedText)

\* The Document of id d is stored with status PROCESSING.
Processing(d) == d \in DOMAIN docs /\ docs[d].status = "PROCESSING"

\* C21 as stated: a Document in PROCESSING does not stay so forever: it
\* becomes COMPLETED or FAILED (or its row is removed).
C21_ProcessingEnds ==
    \A d \in DocIds : Processing(d) ~> ~Processing(d)

\* The Document of id d is in PROCESSING and no ingest is working on it.
Abandoned(d) ==
    /\ Processing(d)
    /\ \A r \in Req : ~(req[r].op = "uploadFile" /\ req[r].id = d)

\* C21 amended: the ingest of a Document in PROCESSING ends, and when it has
\* ended the Document is COMPLETED or FAILED or its row is removed, unless the
\* write of FAILED in the catch itself failed: only that step leaves a row in
\* PROCESSING with no ingest working on it, and such a row stays so.
C21_ProcessingEndsUnlessCatchFails ==
    /\ \A d \in DocIds : Processing(d) ~> (~Processing(d) \/ Abandoned(d))
    /\ [][\A d \in DocIds : ~Abandoned(d) /\ Abandoned(d)' =>
             /\ \E r \in Req : req[r].pc = "catch" /\ req[r].id = d /\ Acts(r)
             /\ resp'.op = "uploadFile" /\ resp'.status = 500
             /\ resp'.value = "PrismaError"]_vars

\* A store fault hit the final write, and the Document ended FAILED with no
\* request in flight.
C21_Witness ==
    /\ \E d \in DOMAIN docs : docs[d].status = "FAILED"
    /\ faults = 1
    /\ blobs # {}
    /\ \A r \in Req : req[r].pc = "idle"

\* An ingest is working on the Document of id d: between the insert of the
\* row and the end of create.
Ingesting(d) ==
    \E r \in Req : req[r].op = "uploadFile" /\ req[r].id = d
                    /\ req[r].pc \in {"ocr", "summary", "update", "catch"}

\* The row as the insert made it: PROCESSING, no text, no summary.
Unprocessed(row) ==
    /\ row.status = "PROCESSING"
    /\ row.extractedText = NULL
    /\ row.aiSummary = NULL

\* C22: while an ingest is working on a Document, the stored row, and the row
\* that a get or a list by the owner returns, is PROCESSING with no text and
\* no summary; and no row, stored or returned, ever has one of the two set
\* without the other.
C22_ReadsDuringIngest ==
    /\ \A d \in DOMAIN docs :
          /\ Ingesting(d) => Unprocessed(docs[d])
          /\ (docs[d].extractedText = NULL) <=> (docs[d].aiSummary = NULL)
    /\ resp.op = "findOne" /\ resp.status = 200 =>
          /\ Ingesting(resp.id) => Unprocessed(resp.value.doc)
          /\ (resp.value.doc.extractedText = NULL) <=> (resp.value.doc.aiSummary = NULL)
    /\ resp.op = "findAll" /\ resp.status = 200 =>
          \A row \in resp.value :
             /\ Ingesting(row.id) => Unprocessed(row)
             /\ (row.extractedText = NULL) <=> (row.aiSummary = NULL)

\* The owner lists its Documents while the ingest has text and summary in
\* hand and has not written them yet: the row is there, unprocessed.
C22_Witness ==
    /\ resp.op = "findAll" /\ resp.status = 200
    /\ \E row \in resp.value :
          /\ Unprocessed(row)
          /\ \E r \in Req : req[r].pc = "update" /\ req[r].id = row.id

\* C23: every stored ChatMessage is a message of a Document whose row exists,
\* under every interleaving of chat turns and removes: a chat turn that passed
\* its ownership check before the remove leaves no message for the Document
\* that is gone.
C23_NoOrphanMessages ==
    \A i \in DOMAIN msgs : msgs[i].documentId \in DOMAIN docs

\* A chat turn passed its ownership check, the Document was removed, and the
\* turn's write was refused: no message is stored.
C23_Witness ==
    /\ resp.op = "sendMessage" /\ resp.status = 500
    /\ Removed(resp.id)
    /\ faults = 0
    /\ msgs = <<>>



\* ------------------------------------------------------------------- C24
\* The rows other than the one the ingest of request r works on, and every
\* message, are what they were.
OthersUntouched(r) ==
    /\ msgs' = msgs
    /\ \A d \in DOMAIN docs :
          d # req[r].id => d \in DOMAIN docs' /\ docs'[d] = docs[d]

\* C24: every step of an ingest leaves every Document other than the one it
\* inserted, and every ChatMessage, unchanged; ingests that overlap, of the
\* same user too, do not interfere.
C24_IngestsIndependent ==
    [][\A r \in Req :
          req[r].op = "uploadFile" /\ Acts(r) => OthersUntouched(r)]_vars

\* An ingest has just completed its Document while another ingest of the same
\* user is at work on a row still as the insert made it.
C24_Witness ==
    /\ resp.op = "uploadFile" /\ resp.status = 201
    /\ \E r \in Req :
          /\ Ingesting(req[r].id)
          /\ req[r].id # resp.id
          /\ req[r].id \in DOMAIN docs /\ resp.id \in DOMAIN docs
          /\ docs[req[r].id].userId = docs[resp.id].userId
          /\ Unprocessed(docs[req[r].id])
          /\ docs[resp.id].status = "COMPLETED"

\* ------------------------------------------------------------------- C25
\* The document text of a row as sendMessage passes it to the chat call.
TextOrEmpty(row) == IF row.extractedText = NULL THEN "" ELSE row.extractedText

\* C25: sendMessage does not look at the status of the Document. A turn is
\* refused as not found only when the caller owns no such Document; a turn
\* that passes the ownership check keeps, until it ends, the text of the row
\* as that check read it, the empty string when the row had no text; and the
\* turn that succeeds has its USER message stored and appends an AI message
\* that is the answer of the chat call to that text and its question.
C25_ChatIgnoresStatus ==
    [][\A r \in Req :
          /\ (resp'.op = "sendMessage" /\ resp'.status = 404 /\ req' = req) =>
                \A d \in DOMAIN docs :
                   ~(d = resp'.id /\ docs[d].userId = resp'.userId)
          /\ (req[r].op # "sendMessage" /\ req'[r].op = "sendMessage") =>
                \E d \in DOMAIN docs :
                   /\ d = req'[r].id
                   /\ docs[d].userId = req'[r].userId
                   /\ req'[r].context = TextOrEmpty(docs[d])
          /\ (req[r].op = "sendMessage" /\ req'[r].op = "sendMessage") =>
                req'[r].context = req[r].context
          /\ (req[r].pc = "aiMsg" /\ Acts(r) /\ resp'.status = 201) =>
                /\ resp'.value.content \in
                      { ChatAboutDocument(req[r].context, req[r].message, apiKey, o) :
                           o \in ProviderOutcomes }
                /\ msgs' = Append(msgs, resp'.value)
                /\ Stored(UserMessageOf(r))]_vars

\* A turn has succeeded with the answer to the empty text, on a Document whose
\* ingest has completed since the ownership check and now has its text.
C25_Witness ==
    /\ resp.op = "sendMessage" /\ resp.status = 201
    /\ resp.value.content = AnswerOf("", QuestionOf(1))
    /\ resp.id \in DOMAIN docs
    /\ docs[resp.id].status = "COMPLETED"
    /\ docs[resp.id].extractedText # NULL
    /\ Stored(ChatMessage(resp.id, "USER", QuestionOf(1), 1))
    /\ Stored(resp.value)

\* ------------------------------------------------------------------- C26
\* C26: once the row of a Document has been removed it stays absent, and the
\* ingest that inserted it, still at work, writes no row in any of its later
\* steps and ends by raising an error, never by returning a Document.
C26_RemovedDuringIngest ==
    [][\A d \in DOMAIN creator :
          d \notin DOMAIN docs =>
             /\ d \notin DOMAIN docs'
             /\ \A r \in Req :
                   (req[r].op = "uploadFile" /\ req[r].id = d /\ Acts(r)) =>
                      /\ docs' = docs
                      /\ req'[r].pc = "idle" =>
                            /\ resp'.op = "uploadFile" /\ resp'.id = d
                            /\ resp'.status = 500]_vars

\* With no fault of the stores, an ingest has ended by raising the error of
\* its write, the row it had inserted having been removed meanwhile.
C26_Witness ==
    /\ resp.op = "uploadFile" /\ resp.status = 500
    /\ resp.value = "PrismaError"
    /\ faults = 0
    /\ resp.id \in DOMAIN creator
    /\ resp.id \notin DOMAIN docs

\* ------------------------------------------------------------------- C27
\* C27 as stated: a remove by the owner that ends with no fault of the stores
\* either succeeds, deleting a row that was there, or reports not found; so
\* of two removes of one Document that overlap, one succeeds and the other
\* is told not found.
C27_OverlappingRemoves ==
    [][\A r \in Req :
          (req[r].op = "remove" /\ Acts(r) /\ req'[r].pc = "idle"
                                /\ faults' = faults) =>
             /\ resp'.status \in {200, 404}
             /\ resp'.status = 200 =>
                   req[r].id \in DOMAIN docs /\ req[r].id \notin DOMAIN docs']_vars

\* ------------------------------------------------------------------- C28
\* The blob that the fileUrl of a row names is in the object store.
BlobPresent(row) ==
    /\ Len(PathParts(row.fileUrl)) > 1
    /\ PathParts(row.fileUrl)[2] \in blobs

\* C28 as stated: in every state, the fileUrl of every Document row names a
\* blob that is in the object store.
C28_RowNeverOutlivesBlob == \A d \in DOMAIN docs : BlobPresent(docs[d])

\* ------------------------------------------------------------------- C29
\* The upload that stored the blob of this id has ended and no row was ever
\* inserted for it.
Orphaned(id) ==
    /\ id \notin DOMAIN creator
    /\ \A r \in Req : req[r].id # id

\* C29: when the User upsert or the Document insert of an ingest fails, the
\* ingest raises at that step, without writing a row or touching the object
\* store; and from then on the blob it had stored stays in the object store,
\* with no Document row of its id and none that names it.
C29_FailureLeavesOrphanBlob ==
    /\ [](\A id \in 1 .. nextId - 1 :
             Orphaned(id) =>
                /\ FilePath(id) \in blobs
                /\ id \notin DOMAIN docs
                /\ \A d \in DOMAIN docs :
                      docs[d].fileUrl # GetPublicUrl(FilePath(id)))
    /\ [][\A r \in Req :
            (req[r].pc \in {"upsert", "insert"} /\ faults' # faults /\ Acts(r)) =>
               /\ req'[r].pc = "idle"
               /\ resp'.op = "uploadFile" /\ resp'.status = 500
               /\ resp'.id = req[r].id
               /\ docs' = docs /\ blobs' = blobs
               /\ FilePath(req[r].id) \in blobs']_vars

\* An upload has failed after its blob was stored: it was answered with the
\* error, there is no Document row, and the blob is in the object store.
C29_Witness ==
    /\ resp.op = "uploadFile" /\ resp.status = 500
    /\ resp.value = "PrismaError"
    /\ Orphaned(resp.id)
    /\ docs = <<>>
    /\ FilePath(resp.id) \in blobs

\* ------------------------------------------------------------------- C30
\* C30 as stated: the user upsert of an upload made without an email leaves
\* the email of a User row that exists as it was; the placeholder is written
\* only when the row is created.
C30_PlaceholderOnlyOnCreate ==
    [][\A r \in Req :
          ( /\ req[r].pc = "upsert" /\ Acts(r)
            /\ req[r].email = UserEmail(NoEmail, req[r].userId)
            /\ req[r].userId \in DOMAIN users ) =>
             users'[req[r].userId] = users[req[r].userId]]_vars

====
